---- MODULE Spec2Model ----
(***************************************************************************)
(* Model of teacher-changes.py: the paginated fetch of courses and of each *)
(* course's instructors, the aggregation of the concurrent per-course      *)
(* fetches into a snapshot, the snapshot file (save/load), the diff of two *)
(* snapshots and the teacher_changes table the diff is logged to.          *)
(*                                                                         *)
(* Strings that the code parses (the Link header, the endpoint) are        *)
(* sequences of tokens: "<", ">", ";", ",", " ", the relation tokens and   *)
(* one token per URL.                                                      *)
(***************************************************************************)
EXTENDS Naturals, Sequences, FiniteSets, Bags, TLC

\* ------------------------------------------------------------------ bounds

\* Pages of a chain of the upstream API.
MaxPages == 3

\* Items on one page of the chains the pagination specification draws.
MaxItems == 1

\* Courses the course-list fetch of one run returns.
MaxCourses == 2

\* Instructor objects the users endpoint of one course returns.
MaxInstructors == 2

\* ------------------------------------------------------------ Python values

\* Python's None where a snapshot (a dict) may stand: a record, so that it
\* compares with the functions it stands in for.
None == [none |-> TRUE]

\* Python's None where a string may stand (a header, an endpoint): a token
\* sequence no string of the model equals.
NoneStr == <<"None">>

\* ------------------------------------------------------------ Link header

RelNext == "rel=\"next\""

UrlOf == <<"p1", "p2", "p3", "p4", "p5">>

\* str.split(sep) for a one-token separator: the pieces between separators.
RECURSIVE SplitAcc(_, _, _, _)
SplitAcc(s, sep, i, cur) ==
    IF i > Len(s) THEN <<cur>>
    ELSE IF s[i] = sep THEN <<cur>> \o SplitAcc(s, sep, i + 1, <<>>)
    ELSE SplitAcc(s, sep, i + 1, Append(cur, s[i]))

split(s, sep) == SplitAcc(s, sep, 1, <<>>)

\* str.strip(chars): leading and trailing tokens of chars removed.
RECURSIVE lstrip(_, _)
lstrip(s, chars) ==
    IF s # <<>> /\ Head(s) \in chars THEN lstrip(Tail(s), chars) ELSE s

RECURSIVE rstrip(_, _)
rstrip(s, chars) ==
    IF s # <<>> /\ s[Len(s)] \in chars
    THEN rstrip(SubSeq(s, 1, Len(s) - 1), chars) ELSE s

strip(s, chars) == rstrip(lstrip(s, chars), chars)

\* 'rel="next"' in link
contains(s, tok) == \E i \in 1..Len(s) : s[i] = tok

\* The for loop of get_next_link over links[i..]: the first entry holding
\* rel="next" decides.
RECURSIVE FirstNext(_, _)
FirstNext(links, i) ==
    IF i > Len(links) THEN NoneStr
    ELSE IF contains(links[i], RelNext)
         THEN strip(split(links[i], ";")[1], {"<", ">"})
         ELSE FirstNext(links, i + 1)

\* Mutant: the first entry's URL is taken whatever its relation.
get_next_link_first(link_header) ==
    IF link_header # NoneStr /\ link_header # <<>>
    THEN strip(split(split(link_header, ",")[1], ";")[1], {"<", ">"})
    ELSE NoneStr

\* get_next_link(link_header): the URL of the rel="next" entry, or None.
get_next_link(link_header) ==
    IF link_header # NoneStr /\ link_header # <<>>
    THEN FirstNext(split(link_header, ","), 1)
    ELSE NoneStr

\* ------------------------------------------------------- upstream list API

\* The sequences over S of length at most n.
RECURSIVE SeqsUpTo(_, _)
SeqsUpTo(S, n) ==
    IF n = 0 THEN {<<>>}
    ELSE LET shorter == SeqsUpTo(S, n - 1)
         IN  shorter \cup {Append(q, e) : q \in {r \in shorter : Len(r) = n - 1}, e \in S}

\* The items of all pages, in page order.
RECURSIVE Concat(_)
Concat(pages) ==
    IF pages = <<>> THEN <<>> ELSE Head(pages) \o Concat(Tail(pages))

\* One entry of a Link header: <url>; rel="<relation>"
Entry(url, rel) == <<"<", url, ">", ";", " ", rel>>

RECURSIVE Join(_)
Join(entries) ==
    IF entries = <<>> THEN <<>>
    ELSE IF Len(entries) = 1 THEN entries[1]
    ELSE entries[1] \o <<",">> \o Join(Tail(entries))

HeaderStyles == {"canvas", "nextonly"}

\* The Link header of page i of n: as Canvas writes it (current, next, prev,
\* first, last, joined by ","), or holding the next entry alone and absent
\* on the last page.
LinkHeader(i, n, style) ==
    IF style = "canvas"
    THEN Join(<<Entry(UrlOf[i], "rel=\"current\"")>>
              \o (IF i < n THEN <<Entry(UrlOf[i + 1], RelNext)>> ELSE <<>>)
              \o (IF i > 1 THEN <<Entry(UrlOf[i - 1], "rel=\"prev\"")>> ELSE <<>>)
              \o <<Entry(UrlOf[1], "rel=\"first\""), Entry(UrlOf[n], "rel=\"last\"")>>)
    ELSE IF i < n THEN Entry(UrlOf[i + 1], RelNext) ELSE NoneStr

\* The upstream endpoint serving chain.pages, one page per URL; the request
\* of page chain.failAt (0: none) fails.
ServerOf(chain) ==
    [u \in {UrlOf[i] : i \in 1..Len(chain.pages)} |->
        LET i == CHOOSE j \in 1..Len(chain.pages) : UrlOf[j] = u
        IN  [status |-> IF i = chain.failAt THEN "error" ELSE "ok",
             body   |-> chain.pages[i],
             link   |-> LinkHeader(i, Len(chain.pages), chain.style)]]

ErrorResponse == [status |-> "error", body |-> <<>>, link |-> NoneStr]

\* requests.get(endpoint): the page the URL names; a string that is no URL
\* of the server gets no page.
Get(server, endpoint) ==
    IF Len(endpoint) = 1 /\ endpoint[1] \in DOMAIN server
    THEN server[endpoint[1]]
    ELSE ErrorResponse

\* ---------------------------------------------------------- paginated fetch

\* while courses_endpoint:
Truthy(endpoint) == endpoint # NoneStr /\ endpoint # <<>>

StartFetch == [endpoint |-> <<UrlOf[1]>>, items |-> <<>>,
               requests |-> <<>>, raised |-> FALSE]

\* One pass of the while loop of fetch_courses (and of
\* fetch_instructors_for_course): the request, raise_for_status, extend,
\* get_next_link.
LoopBody(server, st) ==
    LET response == Get(server, st.endpoint)
        asked    == Append(st.requests, st.endpoint)
    IN  IF response.status # "ok"
        THEN [st EXCEPT !.requests = asked, !.raised = TRUE]
        ELSE [st EXCEPT !.requests = asked,
                        !.items = st.items \o response.body,
                        !.endpoint = get_next_link(response.link)]

Running(st) == ~st.raised /\ Truthy(st.endpoint)

\* Requests after which the model stops following a fetch.
Fuel == MaxPages + 1

\* The whole loop, from st.
RECURSIVE Paginate(_, _)
Paginate(server, st) ==
    IF Running(st) /\ Len(st.requests) < Fuel
    THEN Paginate(server, LoopBody(server, st))
    ELSE st

\* fetch_courses(headers, endpoint, params): the final loop state; the list
\* returned is its items, unless it raised.
fetch_courses(server) == Paginate(server, StartFetch)

\* ------------------------------------------- specification of one fetch

VARIABLES chain, fst

fetchVars == <<chain, fst>>

Items == {"x", "y"}

Pages == SeqsUpTo(Items, MaxItems)

Chains == [pages : SeqsUpTo(Pages, MaxPages) \ {<<>>},
           failAt : 0..MaxPages, style : HeaderStyles]

InitFetch ==
    /\ chain \in {c \in Chains : c.failAt <= Len(c.pages)}
    /\ fst = StartFetch

FetchIdle ==
    /\ chain = [pages |-> <<<<>>>>, failAt |-> 0, style |-> "canvas"]
    /\ fst = StartFetch



\* ------------------------------------------------------------ upstream data

Teachers == {"Alice", "Bob"}

\* Courses of the term: an opaque id and a display name, which two courses
\* may share.
CourseCatalog == {[id |-> 1, name |-> "CS101"],
                  [id |-> 2, name |-> "CS102"],
                  [id |-> 3, name |-> "CS101"]}

CourseNames == {c.name : c \in CourseCatalog}

Range(q) == {q[i] : i \in 1..Len(q)}

\* The course lists the account's courses endpoint serves, in any order.
CourseLists ==
    {q \in SeqsUpTo(CourseCatalog, MaxCourses) :
        \A i, j \in 1..Len(q) : i # j => q[i] # q[j]}

\* The instructor objects a course's users endpoint serves; a name may recur.
InstructorLists == SeqsUpTo({[name |-> t] : t \in Teachers}, MaxInstructors)

\* The ways the upstream serves a list: on one page or cut in two, any one
\* request failing or none, in either header style.
ChainsOf(list) ==
    {c \in [pages  : {<<list>>} \cup {<<SubSeq(list, 1, k), SubSeq(list, k + 1, Len(list))>> :
                                        k \in 0..Len(list)},
            failAt : 0..2,
            style  : HeaderStyles] : c.failAt <= Len(c.pages)}

Returned(st) == ~st.raised /\ ~Truthy(st.endpoint)

\* fetch_instructors_for_course(headers, course_id): the set of the names of
\* the instructors of all pages, or the exception of a failed request.
fetch_instructors_for_course(server) ==
    LET st == Paginate(server, StartFetch)
    IN  [ok    |-> Returned(st),
         names |-> IF Returned(st) THEN {st.items[i].name : i \in 1..Len(st.items)} ELSE {}]

\* What the fetch of one course's instructors can come to.
InstructorOutcomes ==
    {fetch_instructors_for_course(ServerOf(c)) :
        c \in UNION {ChainsOf(list) : list \in InstructorLists}}

\* ------------------------------------------------------------------- dicts

\* A dict of course name -> set: its keys in insertion order, and the value
\* of each key (the empty set under a name that is no key).
EmptyDict == [keys |-> <<>>, val |-> [c \in CourseNames |-> {}]]

\* d[k] = v
DictSet(d, k, v) ==
    [keys |-> IF k \in Range(d.keys) THEN d.keys ELSE Append(d.keys, k),
     val  |-> [d.val EXCEPT ![k] = v]]

\* A snapshot as dict equality sees it: the key set and the values.
Snapshot(d) == [keys |-> Range(d.keys), val |-> d.val]

\* future_to_instructors[future]: the course future i was submitted for.
\* Mutant: every future is taken for the first course.
CourseOfFuture_first(list, i) == list[1]

CourseOfFuture(list, i) == list[i]

\* future.result() raises what the fetch raised.
\* Mutant: a failed fetch counts as a course without instructors.
ResultRaises_never(result) == FALSE

ResultRaises(result) == ~result.ok

\* ------------------------------------------------------------ snapshot file

NoFile == [exists |-> FALSE, keys |-> {}, val |-> [c \in CourseNames |-> <<>>]]

\* list(teachers): the members of the set, each once, in some order.
\* Mutant: the list misses its last member.
ListsOf_short(set) ==
    {SubSeq(q, 1, Len(q) - 1) :
        q \in {r \in SeqsUpTo(set, Cardinality(set)) : Range(r) = set}}

ListsOf(set) == {q \in SeqsUpTo(set, Cardinality(set)) : Range(q) = set}

\* save_teachers_list(teachers): the files json.dump may write, one list per
\* course.
save_teachers_list(teachers) ==
    {[exists |-> TRUE, keys |-> Range(teachers.keys), val |-> v] :
        v \in {w \in [CourseNames -> SeqsUpTo(Teachers, Cardinality(Teachers))] :
                 \A c \in CourseNames :
                    IF c \in Range(teachers.keys)
                    THEN w[c] \in ListsOf(teachers.val[c])
                    ELSE w[c] = <<>>}}

\* Mutant: a run without a stored file loads an empty snapshot.
load_teachers_list_empty(f) ==
    [keys |-> f.keys, val |-> [c \in CourseNames |-> Range(f.val[c])]]

\* load_teachers_list(): the stored lists as sets, or None without a file.
load_teachers_list(f) ==
    IF f.exists
    THEN [keys |-> f.keys, val |-> [c \in CourseNames |-> Range(f.val[c])]]
    ELSE None

\* -------------------------------------------------------------------- diff

\* old_list.get(course, set())
DictGet(old, course) == IF course \in old.keys THEN old.val[course] ELSE {}

\* Mutant: every old teacher counts as removed.
removed_teachers_all(old, new, course) == DictGet(old, course)

\* old_teachers - new_teachers
removed_teachers(old, new, course) == DictGet(old, course) \ new.val[course]

\* Mutant: every new teacher counts as added.
added_teachers_all(old, new, course) == new.val[course]

\* new_teachers - old_teachers
added_teachers(old, new, course) == new.val[course] \ DictGet(old, course)

\* Mutant: the courses of the old snapshot are compared too.
compared_courses_both(old, new) ==
    new.keys \o CHOOSE q \in SeqsUpTo(CourseNames, Cardinality(CourseNames)) :
                    /\ Range(q) = old.keys \ Range(new.keys)
                    /\ Len(q) = Cardinality(Range(q))

\* for course, new_teachers in new_list.items()
compared_courses(old, new) == new.keys

IdleCursor == [ci |-> 0, phase |-> "removed", todo |-> {}]

Finished(old, new, cur) == cur.ci > Len(compared_courses(old, new))

LoopSet(old, new, ci, phase) ==
    IF ci > Len(compared_courses(old, new)) THEN {}
    ELSE IF phase = "removed"
         THEN removed_teachers(old, new, compared_courses(old, new)[ci])
         ELSE added_teachers(old, new, compared_courses(old, new)[ci])

\* The place of compare_teachers at its next log_teacher_change call: loops
\* with nothing left are passed.
RECURSIVE Settle(_, _, _)
Settle(old, new, cur) ==
    IF Finished(old, new, cur) \/ cur.todo # {} THEN cur
    ELSE IF cur.phase = "removed"
         THEN Settle(old, new, [ci |-> cur.ci, phase |-> "added",
                                todo |-> LoopSet(old, new, cur.ci, "added")])
         ELSE Settle(old, new, [ci |-> cur.ci + 1, phase |-> "removed",
                                todo |-> LoopSet(old, new, cur.ci + 1, "removed")])

\* compare_teachers entered: at the first course's removed loop.
StartCursor(old, new) ==
    Settle(old, new, [ci |-> 1, phase |-> "removed",
                      todo |-> LoopSet(old, new, 1, "removed")])


\* -------------------------------------------------------------------- main

VARIABLES
    pc,          \* where main() is
    connection,  \* db_connection: "unset", "open" or "None"
    file,        \* teachers_list.json
    inserted,    \* the rows this run has committed to teacher_changes, in order
    courses,     \* fetch_current_teachers: the course list fetched
    results,     \* the result of each course's future
    collected,   \* the futures as_completed has yielded so far
    teachers,    \* fetch_current_teachers' dict, then current_teachers
    previous,    \* previous_teachers
    cursor,      \* where compare_teachers is
    writes,      \* history: the assignments made to each key of teachers
    file0,       \* history: the file when the run started
    issued,      \* history: the run has sent a request upstream
    failed,      \* history: a page request of the run has failed
    compared,    \* history: the run has called compare_teachers
    logRaised,   \* history: a log_teacher_change call of the run has raised
    committed,   \* history: the rows committed when it raised
    lastDone,    \* history: the snapshot the run before fetched, if it completed
    lastSeeded   \* history: the run before completed without a stored snapshot

mainVars == <<pc, connection, file, inserted, courses, results, collected,
              teachers, previous, cursor, writes, file0, issued, failed,
              compared, logRaised, committed, lastDone, lastSeeded>>

vars == <<mainVars, fetchVars>>

Unset == [unset |-> TRUE]

NoWrites == [c \in CourseNames |-> 0]

\* A run about to start, the file as it is.
RunStart ==
    /\ pc = "start"
    /\ connection = "unset"
    /\ inserted = <<>>
    /\ courses = <<>>
    /\ results = <<>>
    /\ collected = {}
    /\ teachers = EmptyDict
    /\ previous = Unset
    /\ cursor = IdleCursor
    /\ writes = NoWrites
    /\ issued = FALSE
    /\ failed = FALSE
    /\ compared = FALSE
    /\ logRaised = FALSE
    /\ committed = <<>>

\* The first run: no snapshot is stored yet.
InitMain ==
    /\ RunStart
    /\ file = NoFile
    /\ file0 = NoFile
    /\ lastDone = None
    /\ lastSeeded = FALSE

\* Mutant: main goes on without a connection.
main_after_connect_unchecked(conn) == "fetch"

\* if db_connection is None: return
main_after_connect(conn) == IF conn = "None" THEN "exit" ELSE "fetch"

\* create_db_connection(): a connection, or None when connect raises Error.
Connect ==
    /\ pc = "start"
    /\ \E conn \in {"open", "None"} :
          /\ connection' = conn
          /\ pc' = main_after_connect(conn)
    /\ UNCHANGED <<file, inserted, courses, results, collected, teachers,
                   previous, cursor, writes, file0, issued, failed, compared,
                   logRaised, committed, lastDone, lastSeeded, fetchVars>>

\* courses = courses_future.result(): fetch_courses over the pages of the
\* course list; a failed request raises out of fetch_current_teachers.
FetchCourses ==
    /\ pc = "fetch"
    /\ \E list \in CourseLists : \E c \in ChainsOf(list) :
          LET st == fetch_courses(ServerOf(c))
          IN  /\ st.raised \/ Returned(st)
              /\ courses' = IF st.raised THEN <<>> ELSE st.items
              /\ failed' = st.raised
              /\ pc' = IF st.raised THEN "fetch_failed" ELSE "submit"
    /\ issued' = TRUE
    /\ UNCHANGED <<connection, file, inserted, results, collected, teachers,
                   previous, cursor, writes, file0, compared, logRaised,
                   committed, lastDone, lastSeeded, fetchVars>>

\* The dict comprehension of executor.submit calls: one future per course of
\* the list, each running fetch_instructors_for_course in its own thread.
Submit ==
    /\ pc = "submit"
    /\ \E r \in [1..Len(courses) -> InstructorOutcomes] :
          /\ results' = r
          /\ failed' = \E i \in 1..Len(courses) : ~r[i].ok
    /\ collected' = {}
    /\ pc' = IF courses = <<>> THEN "collected" ELSE "collect"
    /\ UNCHANGED <<connection, file, inserted, courses, teachers, previous,
                   cursor, writes, file0, issued, compared, logRaised,
                   committed, lastDone, lastSeeded, fetchVars>>

\* One pass of the as_completed loop, future i being the next to complete:
\* future.result() raises, or teachers[course['name']] = teacher_names.
Collect(i) ==
    /\ pc = "collect"
    /\ i \in (1..Len(courses)) \ collected
    /\ IF ResultRaises(results[i])
       THEN /\ pc' = "fetch_failed"
            /\ UNCHANGED <<teachers, writes, collected>>
       ELSE LET name == CourseOfFuture(courses, i).name
            IN  /\ teachers' = DictSet(teachers, name, results[i].names)
                /\ writes' = [writes EXCEPT ![name] = @ + 1]
                /\ collected' = collected \cup {i}
                /\ pc' = IF collected' = 1..Len(courses) THEN "collected" ELSE "collect"
    /\ UNCHANGED <<connection, file, inserted, courses, results, previous,
                   cursor, file0, issued, failed, compared, logRaised,
                   committed, lastDone, lastSeeded, fetchVars>>

\* return teachers: the locals of fetch_current_teachers are gone.
Return ==
    /\ pc = "collected"
    /\ pc' = "load"
    /\ courses' = <<>>
    /\ results' = <<>>
    /\ collected' = {}
    /\ writes' = NoWrites
    /\ UNCHANGED <<connection, file, inserted, teachers, previous, cursor,
                   file0, issued, failed, compared, logRaised, committed,
                   lastDone, lastSeeded, fetchVars>>

\* previous_teachers = load_teachers_list(), and the branch on it: into
\* compare_teachers up to its first log_teacher_change call, or past it.
Load ==
    /\ pc = "load"
    /\ previous' = load_teachers_list(file)
    /\ IF previous' # None
       THEN /\ compared' = TRUE
            /\ cursor' = StartCursor(previous', teachers)
            /\ pc' = IF Finished(previous', teachers, cursor') THEN "save" ELSE "compare"
       ELSE /\ pc' = "save"
            /\ UNCHANGED <<compared, cursor>>
    /\ UNCHANGED <<connection, file, inserted, courses, results, collected,
                   teachers, writes, file0, issued, failed, logRaised,
                   committed, lastDone, lastSeeded, fetchVars>>

Row(course, action, teacher) ==
    [course_name |-> course, action |-> action, teacher |-> teacher]

\* log_teacher_change commits one row for the next teacher of the loop, and
\* compare_teachers goes on to its next call.
LogOk ==
    /\ pc = "compare"
    /\ \E t \in cursor.todo :
          /\ inserted' = Append(inserted,
                 Row(compared_courses(previous, teachers)[cursor.ci], cursor.phase, t))
          /\ cursor' = Settle(previous, teachers, [cursor EXCEPT !.todo = @ \ {t}])
    /\ pc' = IF Finished(previous, teachers, cursor') THEN "save" ELSE "compare"
    /\ UNCHANGED <<connection, file, courses, results, collected, teachers,
                   previous, writes, file0, issued, failed, compared,
                   logRaised, committed, lastDone, lastSeeded, fetchVars>>

\* Mutant: the exception is swallowed and the loop goes on without the row.
LogFail_caught ==
    /\ pc = "compare"
    /\ logRaised' = TRUE
    /\ committed' = inserted
    /\ \E t \in cursor.todo :
          cursor' = Settle(previous, teachers, [cursor EXCEPT !.todo = @ \ {t}])
    /\ pc' = IF Finished(previous, teachers, cursor') THEN "save" ELSE "compare"
    /\ UNCHANGED <<connection, file, inserted, courses, results, collected,
                   teachers, previous, writes, file0, issued, failed,
                   compared, lastDone, lastSeeded, fetchVars>>

\* log_teacher_change raises before its commit: nothing catches it, main ends.
LogFail ==
    /\ pc = "compare"
    /\ logRaised' = TRUE
    /\ committed' = inserted
    /\ pc' = "log_failed"
    /\ UNCHANGED <<connection, file, inserted, courses, results, collected,
                   teachers, previous, cursor, writes, file0, issued, failed,
                   compared, lastDone, lastSeeded, fetchVars>>

\* save_teachers_list(current_teachers), then the close and the last print.
Save ==
    /\ pc = "save"
    /\ file' \in save_teachers_list(teachers)
    /\ pc' = "done"
    /\ UNCHANGED <<connection, inserted, courses, results, collected, teachers,
                   previous, cursor, writes, file0, issued, failed, compared,
                   logRaised, committed, lastDone, lastSeeded, fetchVars>>

Ended == pc \in {"done", "exit", "fetch_failed", "log_failed"}

\* The scheduler starts the script again.
NextRun ==
    /\ Ended
    /\ pc' = "start"
    /\ connection' = "unset"
    /\ inserted' = <<>>
    /\ courses' = <<>>
    /\ results' = <<>>
    /\ collected' = {}
    /\ teachers' = EmptyDict
    /\ previous' = Unset
    /\ cursor' = IdleCursor
    /\ writes' = NoWrites
    /\ issued' = FALSE
    /\ failed' = FALSE
    /\ compared' = FALSE
    /\ logRaised' = FALSE
    /\ committed' = <<>>
    /\ file0' = file
    /\ lastDone' = IF pc = "done" THEN Snapshot(teachers) ELSE None
    /\ lastSeeded' = (pc = "done" /\ previous = None)
    /\ UNCHANGED <<file, fetchVars>>

Next ==
    \/ Connect
    \/ FetchCourses
    \/ Submit
    \/ \E i \in 1..MaxCourses : Collect(i)
    \/ Return
    \/ Load
    \/ LogOk
    \/ LogFail
    \/ Save
    \/ NextRun

\* The first run is about to start; no fetch is followed on its own.
Init == InitMain /\ FetchIdle

Spec == Init /\ [][Next]_vars

\* ------------------------------------------- specification of one fetch

\* One pass of the loop of fetch_courses against the chain's server.
FetchStep ==
    /\ Running(fst)
    /\ Len(fst.requests) < Fuel
    /\ fst' = LoopBody(ServerOf(chain), fst)
    /\ UNCHANGED chain
    /\ UNCHANGED mainVars

NextFetch == FetchStep

\* A fetch of any chain is about to start; main() does not run.
InitOneFetch == InitMain /\ InitFetch

SpecFetch == InitOneFetch /\ [][NextFetch]_vars

\* ------------------------------------------------------------------ claims

\* compare_teachers has returned in this run.
CompareReturned == compared /\ pc \in {"save", "done"}

\* The rows of the run equal to r.
Count(r) == Cardinality({i \in 1..Len(inserted) : inserted[i] = r})

\* old[c], the empty set when c is no key of old.
OldOf(c) == IF c \in previous.keys THEN previous.val[c] ELSE {}

NewOf(c) == teachers.val[c]

\* C1: once compare_teachers(old, new) has returned, for every course c of new
\* and every instructor t the run has logged the row (c, removed, t) once if
\* t is in old[c] and not in new[c] and never otherwise, the row (c, added, t)
\* once if t is in new[c] and not in old[c] and never otherwise, and no row
\* for anything but a course of new.
C1_DiffRecords ==
    CompareReturned =>
        /\ \A c \in Range(teachers.keys) : \A t \in Teachers :
              /\ Count(Row(c, "removed", t)) =
                    IF t \in OldOf(c) /\ t \notin NewOf(c) THEN 1 ELSE 0
              /\ Count(Row(c, "added", t)) =
                    IF t \in NewOf(c) /\ t \notin OldOf(c) THEN 1 ELSE 0
        /\ \A i \in 1..Len(inserted) :
              /\ inserted[i].course_name \in Range(teachers.keys)
              /\ inserted[i].action \in {"removed", "added"}
              /\ inserted[i].teacher \in Teachers

\* A diff that has logged a removal and an addition has returned.
C1_Witness ==
    /\ CompareReturned
    /\ \E i, j \in 1..Len(inserted) :
          inserted[i].action = "removed" /\ inserted[j].action = "added"

\* C2: a course that is a key of old and no key of new gets no row from
\* compare_teachers(old, new), at any point of the diff and whatever
\* instructors old holds for it.
C2_DroppedCourseSilent ==
    compared =>
        \A c \in previous.keys \ Range(teachers.keys) :
            \A i \in 1..Len(inserted) : inserted[i].course_name # c

\* A diff has returned, with rows logged, whose old snapshot holds
\* instructors for a course the new one lacks.
C2_Witness ==
    /\ CompareReturned
    /\ inserted # <<>>
    /\ \E c \in previous.keys \ Range(teachers.keys) : previous.val[c] # {}

\* C3: in a run one of whose page requests failed (of the course list or of
\* any course's instructors), main never gets past fetch_current_teachers:
\* the file is not read, compare_teachers is not called, the file is as it
\* was when the run started and no row is committed.
C3_FetchFailureAborts ==
    failed =>
        /\ pc \in {"collect", "fetch_failed"}
        /\ previous = Unset
        /\ ~compared
        /\ file = file0
        /\ inserted = <<>>

\* A run with a stored snapshot has ended on a failed instructor fetch after
\* another course's instructors were collected.
C3_Witness ==
    /\ pc = "fetch_failed"
    /\ failed
    /\ file0.exists
    /\ teachers.keys # <<>>
    /\ \E i \in 1..Len(courses) : ~results[i].ok

\* The number of items on all pages.
RECURSIVE SumLen(_)
SumLen(pages) == IF pages = <<>> THEN 0 ELSE Len(Head(pages)) + SumLen(Tail(pages))

\* C4: over a chain of pages that all answer, fetch_courses requests the
\* pages one by one in chain order, goes on only while pages remain, and
\* ends after the last page's request with the items of all pages in page
\* order, duplicates kept.
C4_Pagination ==
    chain.failAt = 0 =>
        /\ ~fst.raised
        /\ \A i \in 1..Len(fst.requests) : fst.requests[i] = <<UrlOf[i]>>
        /\ Running(fst) => Len(fst.requests) < Len(chain.pages)
        /\ ~Running(fst) =>
              /\ Len(fst.requests) = Len(chain.pages)
              /\ fst.items = Concat(chain.pages)
              /\ Len(fst.items) = SumLen(chain.pages)

\* A fetch over three Canvas pages has returned, an item occurring twice.
C4_Witness ==
    /\ chain.failAt = 0
    /\ chain.style = "canvas"
    /\ Len(chain.pages) = 3
    /\ ~Running(fst)
    /\ \E i, j \in 1..Len(fst.items) : i # j /\ fst.items[i] = fst.items[j]

\* C5: after a completed run that fetched S, the file holds S; and if the
\* next run fetches S too and completes, it has diffed against S and
\* committed no row.
C5_SameSnapshotNoRows ==
    lastDone # None =>
        /\ load_teachers_list(file0) = lastDone
        /\ (pc = "done" /\ Snapshot(teachers) = lastDone) =>
              /\ compared
              /\ previous = lastDone
              /\ inserted = <<>>

\* Two runs in a row have completed with the same snapshot, which holds
\* instructors.
C5_Witness ==
    /\ pc = "done"
    /\ lastDone # None
    /\ Snapshot(teachers) = lastDone
    /\ \E c \in lastDone.keys : lastDone.val[c] # {}

\* C6: whatever order save_teachers_list writes each set in, load_teachers_list
\* of the file gives the keys of S and, per course, the set S holds.
C6_RoundTrip ==
    /\ pc \in {"save", "done"} =>
          \A f \in save_teachers_list(teachers) :
              load_teachers_list(f) = Snapshot(teachers)
    /\ pc = "done" => load_teachers_list(file) = Snapshot(teachers)

\* A snapshot was saved with a set of two written against the alphabet.
C6_Witness ==
    /\ pc = "done"
    /\ \E c \in file.keys : file.val[c] = <<"Bob", "Alice">>

\* C7: a run that started without a stored snapshot loads None, does not
\* call compare_teachers and commits no row, and when it is done the file
\* holds what it fetched; the run after a run that completed this way loads
\* a snapshot, not None.
C7_FirstRunSeeds ==
    /\ (~file0.exists /\ previous # Unset) =>
          /\ previous = None
          /\ ~compared
          /\ inserted = <<>>
          /\ pc \in {"save", "done"}
          /\ pc = "done" =>
                file.exists /\ load_teachers_list(file) = Snapshot(teachers)
    /\ (lastSeeded /\ previous # Unset) => previous # None /\ previous = lastDone

\* The run after a seeding run has loaded the stored snapshot.
C7_Witness ==
    /\ lastSeeded
    /\ previous # Unset
    /\ lastDone.keys # {}

\* C8: once a log_teacher_change call has raised, the run is over: the rows
\* of the run are those committed before the call, and the file is the one
\* the run started with, which holds the snapshot the diff was computed
\* against.
C8_LogFailureAborts ==
    logRaised =>
        /\ pc = "log_failed"
        /\ inserted = committed
        /\ file = file0
        /\ load_teachers_list(file) = previous

\* A log call has raised after a row was committed, with rows still to log.
C8_Witness ==
    /\ logRaised
    /\ inserted # <<>>
    /\ cursor.todo # {}

\* C9: with create_db_connection returning None, main has returned: no
\* request went upstream, the file was not read and is as it was, and no
\* row is committed.
C9_NoConnectionNoWork ==
    connection = "None" =>
        /\ pc = "exit"
        /\ ~issued
        /\ previous = Unset
        /\ ~compared
        /\ file = file0
        /\ inserted = <<>>

\* A run with a stored snapshot has ended without a connection.
C9_Witness ==
    /\ connection = "None"
    /\ pc = "exit"
    /\ file.exists

NamesDistinct ==
    \A i, j \in 1..Len(courses) : i # j => courses[i].name # courses[j].name

\* Each key of teachers was assigned at most once, and the snapshot holds
\* under each course's name the instructors fetched for that course.
WriteOnce ==
    /\ \A c \in CourseNames : writes[c] <= 1
    /\ pc = "collected" =>
          /\ Range(teachers.keys) = {courses[i].name : i \in 1..Len(courses)}
          /\ \A i \in 1..Len(courses) : teachers.val[courses[i].name] = results[i].names

\* C10 as stated: for every course list and every completion order each key
\* is written at most once and the snapshot is the one the fetched results
\* determine.
C10_AsStated == pc \in {"collect", "collected"} => WriteOnce

\* C10, amended: for every course list whose display names are pairwise
\* distinct and every completion order, each key is written at most once and
\* the snapshot is the one the fetched results determine.
C10_WriteOnceDistinctNames ==
    (pc \in {"collect", "collected"} /\ NamesDistinct) => WriteOnce

\* Two courses of different names and different instructors were collected,
\* the second submitted completing first.
C10_Witness ==
    /\ pc = "collected"
    /\ Len(courses) = 2
    /\ NamesDistinct
    /\ results[1].names # results[2].names
    /\ teachers.keys[1] = courses[2].name

====
